---- MODULE Spec2Model ----
(***************************************************************************)
(* EchoVerse (app.py): a Streamlit page script.  Every browser session     *)
(* re-runs the script top to bottom on each interaction.  A run loads the  *)
(* API key, reads the widgets and, when the Generate button was clicked,   *)
(* collects the input text, calls the rewrite API, calls the speech        *)
(* service (which saves to the file narration.mp3 in the server's working  *)
(* directory), reads that file back into the session and renders the       *)
(* result sections from the session state.                                 *)
(*                                                                         *)
(* Texts are sequences of one-character strings; audio and file contents   *)
(* are sequences too.  The tone, gender and extra-instruction widgets only *)
(* shape the prompt and the voice and are left out.                        *)
(***************************************************************************)
EXTENDS Integers, Sequences, FiniteSets, TLC

VARIABLES
    envKey,          \* os.environ holds GOOGLE_API_KEY once load_dotenv() has run
    narration,       \* contents of the file narration.mp3 (<<>>: absent or empty)
    pc,              \* per session: position of the running script
    original_text,   \* st.session_state.original_text
    rewritten_text,  \* st.session_state.rewritten_text
    audio_file,      \* st.session_state.audio_file (<<>>: None)
    text_input,      \* the text area widget
    uploaded_file,   \* the file uploader widget
    msgs,            \* inline messages shown by the latest script run
    exc,             \* exception that propagated out of the latest script run
    handler,         \* the latest run entered the Generate button branch
    calls,           \* remote calls made by the latest run, in order
    sent,            \* argument of the rewrite call that produced rewritten_text
    clicks           \* Generate clicks so far, all sessions

vars == <<envKey, narration, pc, original_text, rewritten_text, audio_file,
          text_input, uploaded_file, msgs, exc, handler, calls, sent,
          clicks>>

\* ---------------------------------------------------------------- bounds
MaxClicks == 3

Sessions == {1, 2}

\* --------------------------------------------------------------- strings
Whitespace == {" ", "\n"}

RECURSIVE LStrip(_)
LStrip(t) ==
    IF t # <<>> /\ Head(t) \in Whitespace THEN LStrip(Tail(t)) ELSE t

RECURSIVE RStrip(_)
RStrip(t) ==
    IF t # <<>> /\ t[Len(t)] \in Whitespace
    THEN RStrip(SubSeq(t, 1, Len(t) - 1))
    ELSE t

\* str.strip()
Strip(t) == RStrip(LStrip(t))

\* "\n".join(parts)
RECURSIVE Join(_)
Join(parts) ==
    IF parts = <<>> THEN <<>>
    ELSE IF Len(parts) = 1 THEN parts[1]
    ELSE parts[1] \o <<"\n">> \o Join(Tail(parts))

\* One byte of UTF-8 text as a character; bytes from 128 up do not stand alone.
Chr(b) == IF b = 32 THEN " " ELSE IF b = 10 THEN "\n" ELSE IF b = 97 THEN "a" ELSE "b"

\* bytes.decode("utf-8"): ok is FALSE where Python raises UnicodeDecodeError.
Decode(bytes) ==
    IF \E i \in 1..Len(bytes) : bytes[i] >= 128
    THEN [ok |-> FALSE, text |-> <<>>]
    ELSE [ok |-> TRUE, text |-> [i \in 1..Len(bytes) |-> Chr(bytes[i])]]

\* ---------------------------------------------------------------- inputs
TextInputs == { <<>>, <<" ">>, <<"a">> }

MimeTxt == "text/plain"
MimeDocx == "application/vnd.openxmlformats-officedocument.wordprocessingml.document"
MimeOther == "application/octet-stream"

NoFile == [ext |-> "none", type |-> "none", bytes |-> <<>>, paras |-> <<>>, valid |-> FALSE]

\* What the uploader (type=["txt", "docx"]) can hold: a file with one of the
\* two extensions and the MIME type the browser reported for it.
\* paras/valid: what python-docx makes of the file.
Uploads ==
    { [ext |-> "txt",  type |-> MimeTxt,   bytes |-> <<98>>,  paras |-> <<>>, valid |-> FALSE],
      [ext |-> "txt",  type |-> MimeTxt,   bytes |-> <<255>>, paras |-> <<>>, valid |-> FALSE],
      [ext |-> "docx", type |-> MimeDocx,  bytes |-> <<80>>,  paras |-> << <<"a">>, <<"b">> >>, valid |-> TRUE],
      [ext |-> "docx", type |-> MimeDocx,  bytes |-> <<81>>,  paras |-> <<>>, valid |-> FALSE],
      [ext |-> "docx", type |-> MimeOther, bytes |-> <<80>>,  paras |-> << <<"b">> >>, valid |-> TRUE] }

\* What a user has in the two input widgets when clicking Generate: text
\* alone, or a file beside a filled text box.
Inputs ==
    { <<ti, NoFile>> : ti \in TextInputs } \cup { << <<"a">>, uf >> : uf \in Uploads }

\* Strings the rewrite API can answer with.
RewriteReplies == { <<>>, <<"x">>, <<"y">> }

Raises == <<"raise">>

\* Audio the speech service renders for a text: a header and a frame per character.
Synth(text) == <<"ID3">> \o text

NoCalls == <<>>

\* ------------------------------------------------------------- functions
\* Variant: the key is read with a default, so configure never raises.
ConfigureNeverRaises(env) == FALSE

\* genai.configure(api_key=os.environ["GOOGLE_API_KEY"]) raises KeyError when absent.
ConfigureRaises(env) == ~env

\* read_docx(file): the joined paragraphs, or "" and an inline error.
read_docx(file) ==
    IF file.valid
    THEN [text |-> Join(file.paras), msgs |-> {}]
    ELSE [text |-> <<>>, msgs |-> {"docx_error"}]

\* Lines 180-186: the new original_text, or an escaping exception.
CollectInput(old, ti, uf) ==
    IF uf # NoFile
    THEN IF uf.type = MimeTxt
         THEN IF Decode(uf.bytes).ok
              THEN [text |-> Decode(uf.bytes).text, msgs |-> {}, exc |-> "none"]
              ELSE [text |-> old, msgs |-> {}, exc |-> "UnicodeDecodeError"]
         ELSE IF uf.type = MimeDocx
         THEN [text |-> read_docx(uf).text, msgs |-> read_docx(uf).msgs, exc |-> "none"]
         ELSE [text |-> old, msgs |-> {}, exc |-> "none"]
    ELSE [text |-> ti, msgs |-> {}, exc |-> "none"]

\* Variant: line 188 without .strip().
HasInputNoStrip(text) == text # <<>>

\* Line 188: the guard of the rewrite stage.
HasInput(text) == Strip(text) # <<>>

\* Variant: the except branch falls back to the text it was given.
get_rewritten_text_fallback(original, reply) ==
    IF original = <<>>
    THEN [text |-> <<>>, msgs |-> {}, called |-> FALSE]
    ELSE IF reply = Raises
    THEN [text |-> original, msgs |-> {"ai_error"}, called |-> TRUE]
    ELSE [text |-> reply, msgs |-> {}, called |-> TRUE]

\* get_rewritten_text(original_text, ...) given what the API does (reply or Raises).
get_rewritten_text(original, reply) ==
    IF original = <<>>
    THEN [text |-> <<>>, msgs |-> {}, called |-> FALSE]
    ELSE IF reply = Raises
    THEN [text |-> <<>>, msgs |-> {"ai_error"}, called |-> TRUE]
    ELSE [text |-> reply, msgs |-> {}, called |-> TRUE]

\* ------------------------------------------------------------------ init
Init ==
    /\ envKey \in BOOLEAN
    /\ narration = <<>>
    /\ pc = [s \in Sessions |-> "idle"]
    /\ original_text = [s \in Sessions |-> <<>>]
    /\ rewritten_text = [s \in Sessions |-> <<>>]
    /\ audio_file = [s \in Sessions |-> <<>>]
    /\ text_input = [s \in Sessions |-> <<>>]
    /\ uploaded_file = [s \in Sessions |-> NoFile]
    /\ msgs = [s \in Sessions |-> {}]
    /\ exc = [s \in Sessions |-> "none"]
    /\ handler = [s \in Sessions |-> FALSE]
    /\ calls = [s \in Sessions |-> NoCalls]
    /\ sent = [s \in Sessions |-> <<>>]
    /\ clicks = 0

\* ----------------------------------------------------------- script runs
\* A remote call: its argument and what it gave back (<<>>: nothing, it failed).
Call(api, arg, ret) == [api |-> api, arg |-> arg, ret |-> ret]

SavedPath == <<"narration.mp3">>

\* Lines 19-23: the run ends at st.stop() with the key error on the page.
KeyStop(s) ==
    /\ msgs' = [msgs EXCEPT ![s] = {"key_error"}]
    /\ exc' = [exc EXCEPT ![s] = "none"]
    /\ handler' = [handler EXCEPT ![s] = FALSE]
    /\ calls' = [calls EXCEPT ![s] = NoCalls]
    /\ UNCHANGED <<pc, original_text, rewritten_text, audio_file, sent>>

\* Lines 179-202 up to the rewrite stage: collect the input and test it.
Handle(s, ti, uf) ==
    LET in == CollectInput(original_text[s], ti, uf) IN
    /\ handler' = [handler EXCEPT ![s] = TRUE]
    /\ calls' = [calls EXCEPT ![s] = NoCalls]
    /\ exc' = [exc EXCEPT ![s] = in.exc]
    /\ original_text' = [original_text EXCEPT ![s] = in.text]
    /\ UNCHANGED <<rewritten_text, audio_file, sent>>
    /\ IF in.exc # "none"
       THEN /\ msgs' = [msgs EXCEPT ![s] = in.msgs]
            /\ UNCHANGED pc
       ELSE IF HasInput(in.text)
       THEN /\ msgs' = [msgs EXCEPT ![s] = in.msgs]
            /\ pc' = [pc EXCEPT ![s] = "rewrite"]
       ELSE /\ msgs' = [msgs EXCEPT ![s] = in.msgs \cup {"warning"}]
            /\ UNCHANGED pc

\* A script run in which the Generate button was clicked.
Click(s) ==
    /\ pc[s] = "idle"
    /\ clicks < MaxClicks
    /\ clicks' = clicks + 1
    /\ \E in \in Inputs :
         /\ text_input' = [text_input EXCEPT ![s] = in[1]]
         /\ uploaded_file' = [uploaded_file EXCEPT ![s] = in[2]]
         /\ IF ConfigureRaises(envKey) THEN KeyStop(s) ELSE Handle(s, in[1], in[2])
    /\ UNCHANGED <<envKey, narration>>

\* A script run caused by any other interaction: the button reads False.
Rerun(s) ==
    /\ pc[s] = "idle"
    /\ IF ConfigureRaises(envKey)
       THEN KeyStop(s)
       ELSE /\ msgs' = [msgs EXCEPT ![s] = {}]
            /\ exc' = [exc EXCEPT ![s] = "none"]
            /\ handler' = [handler EXCEPT ![s] = FALSE]
            /\ calls' = [calls EXCEPT ![s] = NoCalls]
            /\ UNCHANGED <<pc, original_text, rewritten_text, audio_file, sent>>
    /\ UNCHANGED <<envKey, narration, text_input, uploaded_file, clicks>>

\* Variant: an empty result sends the handler back to the rewrite call.
AfterRewriteRetry(text) == IF text # <<>> THEN "speech" ELSE "rewrite"

\* Where the handler goes after line 190, given the stored rewritten text.
AfterRewrite(text) == IF text # <<>> THEN "speech" ELSE "idle"

\* Lines 190-191, 199-200: the rewrite call and the branch on its result.
Rewrite(s) ==
    /\ pc[s] = "rewrite"
    /\ \E reply \in RewriteReplies \cup {Raises} :
         LET r == get_rewritten_text(original_text[s], reply) IN
         /\ rewritten_text' = [rewritten_text EXCEPT ![s] = r.text]
         /\ calls' = [calls EXCEPT ![s] =
                IF r.called
                THEN Append(@, Call("rewrite", original_text[s],
                                    IF reply = Raises THEN <<>> ELSE reply))
                ELSE @]
         /\ sent' = [sent EXCEPT ![s] = IF r.text # <<>> THEN original_text[s] ELSE @]
         /\ pc' = [pc EXCEPT ![s] = AfterRewrite(r.text)]
         /\ msgs' = [msgs EXCEPT ![s] =
                IF AfterRewrite(r.text) = "speech"
                THEN @ \cup r.msgs
                ELSE @ \cup r.msgs \cup {"rewrite_failed"}]
    /\ UNCHANGED <<envKey, narration, original_text, audio_file, text_input,
                   uploaded_file, exc, handler, clicks>>

\* Variant: st.success sits outside the "if audio_path" test.
SpeechFailedShowsSuccess(s) ==
    /\ msgs' = [msgs EXCEPT ![s] = @ \cup {"tts_error", "audio_failed", "success"}]
    /\ pc' = [pc EXCEPT ![s] = "idle"]

\* Lines 138-140, 197-198: generate_audio returned None.
SpeechFailed(s) ==
    /\ msgs' = [msgs EXCEPT ![s] = @ \cup {"tts_error", "audio_failed"}]
    /\ pc' = [pc EXCEPT ![s] = "idle"]

\* Lines 192, 135-136: Communicate(text, voice) raises, or save() opens
\* narration.mp3 for writing, which empties it.
SpeechStart(s) ==
    /\ pc[s] = "speech"
    /\ calls' = [calls EXCEPT ![s] = Append(@, Call("speech", rewritten_text[s], <<>>))]
    /\ \/ SpeechFailed(s) /\ UNCHANGED narration
       \/ /\ narration' = <<>>
          /\ pc' = [pc EXCEPT ![s] = "saving"]
          /\ UNCHANGED msgs
    /\ UNCHANGED <<envKey, original_text, rewritten_text, audio_file, text_input,
                   uploaded_file, exc, handler, sent, clicks>>

\* Lines 136-140: the stream breaks off, or save() has written all the audio.
SpeechFinish(s) ==
    /\ pc[s] = "saving"
    /\ \/ /\ SpeechFailed(s)
          /\ narration' = <<"ID3">>
          /\ UNCHANGED calls
       \/ /\ narration' = Synth(rewritten_text[s])
          /\ calls' = [calls EXCEPT ![s] =
                 [@ EXCEPT ![Len(@)] = Call("speech", rewritten_text[s], SavedPath)]]
          /\ pc' = [pc EXCEPT ![s] = "read"]
          /\ UNCHANGED msgs
    /\ UNCHANGED <<envKey, original_text, rewritten_text, audio_file, text_input,
                   uploaded_file, exc, handler, sent, clicks>>

\* Lines 193-196: read narration.mp3 back into the session.
ReadAudio(s) ==
    /\ pc[s] = "read"
    /\ audio_file' = [audio_file EXCEPT ![s] = narration]
    /\ msgs' = [msgs EXCEPT ![s] = @ \cup {"success"}]
    /\ pc' = [pc EXCEPT ![s] = "idle"]
    /\ UNCHANGED <<envKey, narration, original_text, rewritten_text, text_input,
                   uploaded_file, exc, handler, calls, sent, clicks>>

Next ==
    \E s \in Sessions :
        \/ Click(s)
        \/ Rerun(s)
        \/ Rewrite(s)
        \/ SpeechStart(s)
        \/ SpeechFinish(s)
        \/ ReadAudio(s)

Spec == Init /\ [][Next]_vars

\* One browser session alone on the server.
NextSolo ==
    \/ Click(1)
    \/ Rerun(1)
    \/ Rewrite(1)
    \/ SpeechStart(1)
    \/ SpeechFinish(1)
    \/ ReadAudio(1)

SpecSolo == Init /\ [][NextSolo]_vars

\* ------------------------------------------------------------- the page
\* The page as the session sees it once the run is over.
Shown(s) == pc[s] = "idle"

\* Line 204: the Original vs. Rewritten section is rendered.
TextSectionShown(s) == rewritten_text[s] # <<>>

\* Line 215: the audio player and the download button are rendered.
AudioShown(s) == audio_file[s] # <<>>

Outcomes == {"success", "audio_failed", "rewrite_failed", "warning"}

CallsOf(s, api) == { i \in 1..Len(calls[s]) : calls[s][i].api = api }

BothSucceeded(s) ==
    /\ Len(calls[s]) = 2
    /\ calls[s][1].api = "rewrite" /\ calls[s][1].ret # <<>>
    /\ calls[s][2].api = "speech" /\ calls[s][2].ret # <<>>

\* ------------------------------------------------------------ properties

\* C1: no exception propagates out of a script run, and a run that entered
\* the Generate handler ends in one of its message outcomes (success, error
\* or warning).
C1_EveryFailureCaught ==
    \A s \in Sessions :
        /\ exc[s] = "none"
        /\ (handler[s] /\ Shown(s)) => msgs[s] \cap Outcomes # {}

C3_SingleShotSerial ==
    \A s \in Sessions :
        /\ Cardinality(CallsOf(s, "rewrite")) <= 1
        /\ Cardinality(CallsOf(s, "speech")) <= 1
        /\ \A i \in CallsOf(s, "speech") :
               \E j \in CallsOf(s, "rewrite") : j < i /\ calls[s][j].ret # <<>>
        /\ \A i \in 1..Len(calls[s]) :
               (calls[s][i].ret = <<>> /\ (pc[s] # "saving" \/ i < Len(calls[s])))
                   => (i = Len(calls[s]) /\ Shown(s))

\* A click whose speech call failed after a successful rewrite: it is over.
C3_Witness ==
    \E s \in Sessions :
        /\ Len(calls[s]) = 2
        /\ calls[s][1].ret # <<>>
        /\ calls[s][2].ret = <<>>
        /\ "audio_failed" \in msgs[s]
        /\ Shown(s)

\* C4: the audio bytes a click stores in the session are the bytes the
\* speech call of that session made from that session's rewritten text.
C4_AudioIsOwnSpeech ==
    \A s \in Sessions :
        ("success" \in msgs[s]) => audio_file[s] = Synth(rewritten_text[s])

\* The input a click supplies: the uploaded file's content if there is a
\* file, else the text box.
Supplied(ti, uf) ==
    IF uf = NoFile THEN ti
    ELSE IF uf.ext = "docx" THEN (IF uf.valid THEN Join(uf.paras) ELSE <<>>)
    ELSE Decode(uf.bytes).text

\* C5: after a Generate click the original text is the input supplied in
\* that click (file content before text box), never an earlier value.
C5_OriginalIsClickInput ==
    \A s \in Sessions :
        (handler[s] /\ exc[s] = "none") =>
            original_text[s] = Supplied(text_input[s], uploaded_file[s])

\* C6: without the API key every run shows the key error and stops: the
\* handler is not reached, no remote call is made and nothing is stored.
C6_NoKeyStops ==
    ~envKey =>
        /\ \A s \in Sessions :
               /\ ~handler[s]
               /\ calls[s] = NoCalls
               /\ Shown(s)
               /\ msgs[s] \subseteq {"key_error"}
               /\ original_text[s] = <<>> /\ rewritten_text[s] = <<>>
               /\ audio_file[s] = <<>>
        /\ narration = <<>>
        /\ clicks > 0 => \E s \in Sessions : msgs[s] = {"key_error"}

\* A Generate click with text in the box was made without the key.
C6_Witness ==
    /\ ~envKey
    /\ \E s \in Sessions : text_input[s] = <<"a">> /\ msgs[s] = {"key_error"}

C7_SuccessIffBoth ==
    \A s \in Sessions :
        ("success" \in msgs[s]) <=> (Shown(s) /\ BothSucceeded(s))

C7_AudioFrame ==
    \A s \in Sessions :
        audio_file'[s] # audio_file[s] =>
            /\ "success" \notin msgs[s]
            /\ "success" \in msgs'[s]
            /\ calls'[s] = calls[s] /\ BothSucceeded(s)

\* C7: the success message is shown exactly by the clicks whose rewrite call
\* and speech call both succeeded, and only such a click changes the
\* session's audio bytes; every other step leaves them as they were.
C7_AudioReplacedOnlyOnSuccess == []C7_SuccessIffBoth /\ [][C7_AudioFrame]_vars

\* A click whose speech call failed left the audio of an earlier click.
C7_Witness ==
    \E s \in Sessions :
        /\ Shown(s)
        /\ "audio_failed" \in msgs[s]
        /\ AudioShown(s)

\* C8: when the rewrite call fails (raises or returns empty text) the
\* rewritten text is empty, no speech call is made, the rewrite error is
\* shown and the text section is not rendered; when it succeeds the
\* rewritten text is the string the call returned.
C8_RewriteOutcome ==
    \A s \in Sessions :
        \A i \in CallsOf(s, "rewrite") :
            /\ calls[s][i].ret = <<>> =>
                   /\ rewritten_text[s] = <<>>
                   /\ CallsOf(s, "speech") = {}
                   /\ "rewrite_failed" \in msgs[s]
                   /\ Shown(s) /\ ~TextSectionShown(s)
            /\ calls[s][i].ret # <<>> =>
                   /\ rewritten_text[s] = calls[s][i].ret
                   /\ "rewrite_failed" \notin msgs[s]

\* A failed rewrite discarded the rewritten text of an earlier click.
C8_Witness ==
    \E s \in Sessions :
        /\ sent[s] # <<>>
        /\ Len(calls[s]) = 1 /\ calls[s][1].ret = <<>>
        /\ rewritten_text[s] = <<>>
        /\ "ai_error" \in msgs[s]

\* C9: whenever the audio player is rendered, the audio was synthesized from
\* the rewritten text the session holds.
C9_AudioMatchesRewritten ==
    \A s \in Sessions :
        (Shown(s) /\ AudioShown(s)) => audio_file[s] = Synth(rewritten_text[s])

\* C10: whenever the text section is rendered, the original text beside it
\* is the text that was sent to the rewrite call which produced the
\* rewritten text.
C10_OriginalMatchesRewritten ==
    \A s \in Sessions :
        (Shown(s) /\ TextSectionShown(s)) => original_text[s] = sent[s]

====
